---- MODULE Spec2Model ----
(***************************************************************************)
(* A model of the derivation cache pipeline of backend/backend.py: the     *)
(* four functools.lru_cache stages (download_pdf, get_cached_page,         *)
(* get_pdf_page_regions, get_pdf_latex), the region index built by         *)
(* get_pdf_regions, the FastAPI endpoints that drive them and the upload   *)
(* directory.  Every endpoint is an `async def` that calls the blocking    *)
(* pipeline functions without awaiting, so a handler runs on the event     *)
(* loop from its first line to its return with no other handler between.   *)
(***************************************************************************)
EXTENDS Integers, Sequences, FiniteSets, TLC

\* ------------------------------------------------------------------ bounds
\* The caches keep the code's policy and are scaled down in size:
\* lru_cache(maxsize=32 / 64 / 256 / 2048) in the source.
DownloadMaxsize == 2
PageMaxsize == 2
RegionsMaxsize == 2
LatexMaxsize == 2
\* The sizes in the source.
download_pdf_maxsize == 32
get_cached_page_maxsize == 64
get_pdf_page_regions_maxsize == 256
get_pdf_latex_maxsize == 2048
\* Requests the server holds at one time in the concurrent specification.
MaxInflight == 2

\* ------------------------------------------------------------- identifiers
\* A document identifier is <<scheme, id>>:
\*   <<"http", u>>   the URL http://u
\*   <<"local", l>>  the upload handle local://l
\*   <<"file", l>>   the path UPLOAD_DIR/l.pdf
\*   <<"path", p>>   the string p, which has no scheme
UrlIds == {"u1", "u2"}
LocalIds == {"l1"}
Urls == {<<"http", u>> : u \in UrlIds}
Handles == {<<"local", l>> : l \in LocalIds}
Paths == {<<"file", l>> : l \in LocalIds}
\* What a client passes to an endpoint.
Idents == Urls \cup Handles

is_url(s) == s[1] \in {"http", "https"}

resolve_pdf_path(pdf_url) ==
    IF pdf_url[1] = "local" THEN <<"file", pdf_url[2]>> ELSE pdf_url

\* ------------------------------------------------------- document contents
\* Bytes are [doc, ver]: which document and which version of its content.
\* A remote server may serve a new version of a URL (spec section 7); an
\* uploaded file is written once.
Versions == {1, 2}

Pt(x, y) == <<x, y>>
Box(x1, y1, x2, y2) == <<Pt(x1, y1), Pt(x2, y1), Pt(x2, y2), Pt(x1, y2)>>
\* One element of the detector's output: a dict with 'box' and 'score'
\* (score in hundredths), or something else.
Det(score, box) ==
    [isdict |-> TRUE, hasbox |-> TRUE, hasscore |-> TRUE, score |-> score, box |-> box]
NoScore(box) ==
    [isdict |-> TRUE, hasbox |-> TRUE, hasscore |-> FALSE, score |-> 0, box |-> box]
NotADict ==
    [isdict |-> FALSE, hasbox |-> FALSE, hasscore |-> FALSE, score |-> 0, box |-> <<>>]

Page(w, h, dets) == [width |-> w, height |-> h, dets |-> dets]

\* The pages of each document version: size in pixels and what the
\* detection model reports on the page.
PdfPages(bytes) ==
    CASE bytes.doc = "u1" /\ bytes.ver = 1 ->
           << Page(1000, 2000,
                   << Det(90, Box(100, 400, 500, 1200)),
                      Det(60, Box(10, 10, 20, 20)),
                      NotADict,
                      Det(75, Box(600, 100, 900, 300)) >>),
              Page(1000, 2000, << Det(80, Box(0, 0, 1000, 2000)) >>) >>
      [] bytes.doc = "u1" /\ bytes.ver = 2 ->
           << Page(800, 1000,
                   << Det(95, Box(80, 100, 400, 600)),
                      NoScore(Box(1, 1, 2, 2)),
                      Det(99, Box(200, 700, 600, 900)) >>),
              Page(800, 1000, << >>),
              Page(800, 1000, << Det(74, Box(5, 5, 9, 9)) >>) >>
      [] bytes.doc = "u2" ->
           << Page(500, 500, << Det(30, Box(1, 1, 2, 2)) >>) >>
      [] OTHER ->
           << Page(600, 800, << Det(88, Box(60, 80, 300, 400)) >>) >>


\* ------------------------------------------------------------------- state
VARIABLES
    files,      \* upload directory: local id -> "none" | "fresh" | "old" | "deleted"
    server,     \* url id -> the version of the content the remote server serves
    dl,         \* cache of download_pdf:          <<[k, v], ...>>, least recent first
    pg,         \* cache of get_cached_page
    rg,         \* cache of get_pdf_page_regions
    lx,         \* cache of get_pdf_latex
    ix,         \* history: per resolved document, the index get_pdf_regions
                \* returned last and whether that call ran without an
                \* eviction, emptied by any eviction since
    rastered,   \* history: the page keys get_pdf_page_image has rasterized and
                \* get_cached_page has not evicted since
    last,       \* history: the handler that ran last, its response and its trace
    reqs,       \* concurrent specification: request slot -> request and response
    loop,       \* concurrent specification: the slot running on the event loop, 0 if none
    conc,       \* history: pairs of slots whose requests were in flight together
    call,       \* stage specification: one call of a stage function, its
                \* input and what it returned
    tick,       \* history: the parity of the handlers run so far in the
                \* specifications that check a handler against the one
                \* before: it changes with every handler, with nothing else
    now,        \* expiry specification: time.time(), in seconds
    mtime       \* expiry specification: name in the upload directory ->
                \* st_mtime of the file, Never or Gone

vars == <<files, server, dl, pg, rg, lx, ix, rastered, last, reqs, loop, conc, call, tick,
          now, mtime>>

\* --------------------------------------------------------------- lru_cache
\* functools.lru_cache(maxsize=n): a hit moves the entry to the most recent
\* end and returns the stored value; a miss calls the function and, when it
\* returns, stores the result, dropping the least recent entry of a full
\* cache.  A call that raises stores nothing.
CacheHas(c, k) == \E i \in 1..Len(c) : c[i].k = k
CacheGet(c, k) == c[CHOOSE i \in 1..Len(c) : c[i].k = k].v
CacheKeys(c) == {c[i].k : i \in 1..Len(c)}
\* A lookup that leaves the entry where it is.
CacheStay(c, k) == c

CacheTouch(c, k) ==
    LET hit(x) == x.k = k
        miss(x) == x.k # k
    IN SelectSeq(c, miss) \o SelectSeq(c, hit)
CacheFull(c, maxsize) == Len(c) >= maxsize
\* A cache that forgets every entry when an insert finds it full.
CachePutFlush(c, k, v, maxsize) ==
    IF CacheFull(c, maxsize) THEN <<[k |-> k, v |-> v]>>
    ELSE Append(c, [k |-> k, v |-> v])

CachePut(c, k, v, maxsize) ==
    IF CacheFull(c, maxsize) THEN Append(Tail(c), [k |-> k, v |-> v])
    ELSE Append(c, [k |-> k, v |-> v])


\* ----------------------------------------------------- pipeline plumbing
\* The pipeline functions are operators on a record s of the four caches
\* and the trace of the running handler, under an environment e: the upload
\* directory, the remote server, and what the network and the two models
\* do during this handler.
\*   e.net     "200" | "404" | "down"   the remote server's answer
\*   e.detBad  pages on which math_detector.detect raises
\*   e.recBad  region ids on which p2t.recognize_formula raises
\*   e.who     the request slot running (0 outside the concurrent specification)
\* A call returns [s, ok, val]: the state it leaves, and its value or the
\* exception it raises.  Where a function goes on with the result of a call,
\* the rest of its body is the operator that takes the result.
Ok(s, v) == [s |-> s, ok |-> TRUE, val |-> v]
Fail(s, err) == [s |-> s, ok |-> FALSE, val |-> err]
Ev(t, k, a) == [t |-> t, k |-> k, a |-> a]
Log(s, t, k, a) == [s EXCEPT !.ev = Append(@, Ev(t, k, a))]
\* raise: the trace keeps where an exception starts.
Raise(s, k, err) == Fail(Log(s, "raise", k, err), err)

\* An eviction is traced with the cache it happens in.
Evict(s, cache, c, maxsize) ==
    IF CacheFull(c, maxsize) THEN Log(s, "evict", Head(c).k, cache) ELSE s

\* Files of the host outside the upload directory that the server may
\* read: by their absolute path, and by the stem s for which
\* UPLOAD_DIR / "s.pdf" names them.
HostPaths == {"/etc/hostname"}
HostPdfs == {"../h1"}

os_path_exists(path, e) ==
    \/ path[1] = "file" /\ path[2] \in DOMAIN e.files
                        /\ e.files[path[2]] \in {"fresh", "old"}
    \/ path[1] = "file" /\ path[2] \in HostPdfs
    \/ path[1] = "path" /\ path[2] \in HostPaths

\* ---------------------------------------------------------- download_pdf
\* requests.get on a string that is no URL raises before any I/O.
requests_get(s, e, pdf_url) ==
    IF ~is_url(pdf_url)
    THEN Raise(s, pdf_url,
               IF pdf_url[1] = "local" THEN "InvalidSchema" ELSE "MissingSchema")
    ELSE IF e.net = "down"
    THEN Raise(Log(s, "fetch", pdf_url, "down"), pdf_url, "ConnectionError")
    ELSE IF e.net # "200"
    THEN Raise(Log(s, "fetch", pdf_url, e.net), pdf_url,
               "ValueError: Failed to download PDF")
    ELSE Ok(Log(s, "fetch", pdf_url, "200"),
            [doc |-> pdf_url[2], ver |-> e.server[pdf_url[2]]])

download_pdf_body(s, e, pdf_url) ==
    IF os_path_exists(pdf_url, e) /\ ~is_url(pdf_url)
    THEN Ok(Log(s, "read", pdf_url, "disk"), [doc |-> pdf_url[2], ver |-> 1])
    ELSE requests_get(s, e, pdf_url)

\* A memoizing wrapper that also keeps the key of a call that raised.
download_pdf_store_failed(r, pdf_url) ==
    IF ~r.ok
    THEN Fail([Evict(r.s, "dl", r.s.dl, DownloadMaxsize)
                  EXCEPT !.dl = CachePut(@, pdf_url, [doc |-> pdf_url[2], ver |-> 1],
                                         DownloadMaxsize)],
              r.val)
    ELSE Ok([Evict(r.s, "dl", r.s.dl, DownloadMaxsize)
                EXCEPT !.dl = CachePut(@, pdf_url, r.val, DownloadMaxsize)],
            r.val)

\* lru_cache(maxsize=32) on a miss, given what the body returned.
download_pdf_store(r, pdf_url) ==
    IF ~r.ok THEN r
    ELSE Ok([Evict(r.s, "dl", r.s.dl, DownloadMaxsize)
                EXCEPT !.dl = CachePut(@, pdf_url, r.val, DownloadMaxsize)],
            r.val)

\* The trace keeps each run of the function body: "download".
download_pdf(s, e, pdf_url) ==
    IF CacheHas(s.dl, pdf_url)
    THEN Ok([s EXCEPT !.dl = CacheTouch(@, pdf_url)], CacheGet(s.dl, pdf_url))
    ELSE download_pdf_store(
             download_pdf_body(Log(s, "download", pdf_url, "miss"), e, pdf_url),
             pdf_url)

\* ------------------------------------------------------- page rasterizer
\* convert_from_bytes(pdf_bytes, first_page=p, last_page=p): the list of the
\* page images, empty when the document has no page p.
HasPage(bytes, page_num) == page_num \in 1..Len(PdfPages(bytes))
\* A PIL image: which page of which bytes, its size, and the object's
\* identity: the function that created it and the handler it ran in.
Image(bytes, page_num, owner) ==
    [doc |-> bytes.doc, ver |-> bytes.ver, page |-> page_num,
     width |-> PdfPages(bytes)[page_num].width,
     height |-> PdfPages(bytes)[page_num].height,
     owner |-> owner]

\* Lines 111-117, given the bytes download_pdf returned: "raster" in the
\* trace is convert_from_bytes running.
get_pdf_page_image_convert(d, e, pdf_url, page_num) ==
    IF ~d.ok THEN d
    ELSE IF ~HasPage(d.val, page_num)
    THEN Raise(Log(d.s, "raster", <<pdf_url, page_num>>, "cached_page"),
               <<pdf_url, page_num>>, "IndexError")
    ELSE Ok(Log(d.s, "raster", <<pdf_url, page_num>>, "cached_page"),
            Image(d.val, page_num, <<"cached_page", e.who>>))

get_pdf_page_image(s, e, pdf_url, page_num) ==
    get_pdf_page_image_convert(
        download_pdf(Log(s, "page_image", <<pdf_url, page_num>>, "call"), e, pdf_url),
        e, pdf_url, page_num)

\* lru_cache(maxsize=64) on a miss, given what the body returned.  The trace
\* keeps what each call of get_cached_page hands its caller: "page".
get_cached_page_store(r, key) ==
    IF ~r.ok THEN Fail(Log(r.s, "page", key, [ok |-> FALSE, val |-> r.val]), r.val)
    ELSE Ok(Log([Evict(r.s, "pg", r.s.pg, PageMaxsize)
                    EXCEPT !.pg = CachePut(@, key, r.val, PageMaxsize)],
                "page", key, [ok |-> TRUE, val |-> r.val]),
            r.val)

\* A get_cached_page without the cache lookup: every call rasterizes.
get_cached_page_uncached(s, e, pdf_url, page_num) ==
    get_cached_page_store(get_pdf_page_image(s, e, pdf_url, page_num),
                          <<pdf_url, page_num>>)

get_cached_page(s, e, pdf_url, page_num) ==
    IF CacheHas(s.pg, <<pdf_url, page_num>>)
    THEN Ok(Log([s EXCEPT !.pg = CacheTouch(@, <<pdf_url, page_num>>)],
                "page", <<pdf_url, page_num>>,
                [ok |-> TRUE, val |-> CacheGet(s.pg, <<pdf_url, page_num>>)]),
            CacheGet(s.pg, <<pdf_url, page_num>>))
    ELSE get_cached_page_store(get_pdf_page_image(s, e, pdf_url, page_num),
                               <<pdf_url, page_num>>)

\* ------------------------------------------------------- region detector
\* Hundredths: min_score = 0.75.
min_score == 75

\* A normalized coordinate is the quotient pixel / size, kept as <<pixel, size>>.
Frac(n, d) == <<n, d>>

\* The loop over the detector's results (lines 202-211): a result that is no
\* dict or lacks 'box' or 'score' is skipped, one below min_score is
\* skipped, and indexing a box that has no third corner raises.
\* A test that lets a score through only above min_score.
AcceptedAbove(result) ==
    result.isdict /\ result.hasbox /\ result.hasscore /\ result.score > min_score
\* Lines 203-204: the two tests a result passes before its box is read.
Accepted(result) ==
    result.isdict /\ result.hasbox /\ result.hasscore /\ result.score >= min_score
RECURSIVE ParseResults(_, _, _, _)
ParseResults(results, image, page_num, formulas) ==
    IF results = <<>> THEN [ok |-> TRUE, val |-> formulas]
    ELSE IF Accepted(Head(results))
    THEN IF Len(Head(results).box) < 3 THEN [ok |-> FALSE, val |-> "IndexError"]
         ELSE ParseResults(Tail(results), image, page_num,
                Append(formulas,
                  [page |-> page_num,
                   bbox |-> << Frac(Head(results).box[1][1], image.width),
                               Frac(Head(results).box[1][2], image.height),
                               Frac(Head(results).box[3][1], image.width),
                               Frac(Head(results).box[3][2], image.height) >>]))
    ELSE ParseResults(Tail(results), image, page_num, formulas)

\* Lines 198-212, given the page image: "detect" in the trace is
\* math_detector.detect running on that image.
detect_formulas(s, e, image, pdf_url, page_num, f) ==
    IF page_num \in e.detBad
    THEN Raise(Log(s, "detect", <<pdf_url, page_num>>, image),
               <<pdf_url, page_num>>, "ModelFailure")
    ELSE IF f.ok THEN Ok(Log(s, "detect", <<pdf_url, page_num>>, image), f.val)
    ELSE Raise(Log(s, "detect", <<pdf_url, page_num>>, image),
               <<pdf_url, page_num>>, f.val)

\* Lines 195-196, given the bytes download_pdf returned: the function
\* rasterizes the page itself, and the image is a local object of the call,
\* not the one get_cached_page holds.
get_pdf_page_regions_convert(d, e, pdf_url, page_num) ==
    IF ~d.ok THEN d
    ELSE IF ~HasPage(d.val, page_num)
    THEN Raise(Log(d.s, "raster", <<pdf_url, page_num>>, "regions"),
               <<pdf_url, page_num>>, "IndexError")
    ELSE detect_formulas(Log(d.s, "raster", <<pdf_url, page_num>>, "regions"),
                         e, Image(d.val, page_num, <<"regions", e.who>>),
                         pdf_url, page_num,
                         ParseResults(PdfPages(d.val)[page_num].dets,
                                      Image(d.val, page_num, <<"regions", e.who>>),
                                      page_num, <<>>))

get_pdf_page_regions_body(s, e, pdf_url, page_num) ==
    get_pdf_page_regions_convert(download_pdf(s, e, resolve_pdf_path(pdf_url)),
                                 e, resolve_pdf_path(pdf_url), page_num)

\* lru_cache(maxsize=256) on a miss, given what the body returned.  The
\* trace keeps what each call hands its caller: "regions".
get_pdf_page_regions_store(r, key) ==
    IF ~r.ok THEN r
    ELSE Ok(Log([Evict(r.s, "rg", r.s.rg, RegionsMaxsize)
                    EXCEPT !.rg = CachePut(@, key, r.val, RegionsMaxsize)],
                "regions", key, r.val),
            r.val)

\* A get_pdf_page_regions without lru_cache that fetches the bytes itself:
\* every call detects on what the source serves now.
get_pdf_page_regions_traced(r, key) ==
    IF ~r.ok THEN r ELSE Ok(Log(r.s, "regions", key, r.val), r.val)

get_pdf_page_regions_uncached(s, e, pdf_url, page_num) ==
    get_pdf_page_regions_traced(
        get_pdf_page_regions_convert(
            download_pdf_body(s, e, resolve_pdf_path(pdf_url)),
            e, resolve_pdf_path(pdf_url), page_num),
        <<pdf_url, page_num>>)

\* A get_pdf_page_regions that stores its result and never looks it up.
get_pdf_page_regions_nohit(s, e, pdf_url, page_num) ==
    get_pdf_page_regions_store(
        get_pdf_page_regions_body(s, e, pdf_url, page_num),
        <<pdf_url, page_num>>)

get_pdf_page_regions(s, e, pdf_url, page_num) ==
    IF CacheHas(s.rg, <<pdf_url, page_num>>)
    THEN Ok(Log([s EXCEPT !.rg = CacheTouch(@, <<pdf_url, page_num>>)],
                "regions", <<pdf_url, page_num>>,
                CacheGet(s.rg, <<pdf_url, page_num>>)),
            CacheGet(s.rg, <<pdf_url, page_num>>))
    ELSE get_pdf_page_regions_store(
             get_pdf_page_regions_body(s, e, pdf_url, page_num),
             <<pdf_url, page_num>>)

\* ---------------------------------------------------------- region index
\* An enumerate that counts from 1.
EnumerateFromOne(all_formulas) ==
    [i \in 1..Len(all_formulas) |->
        [bbox |-> all_formulas[i].bbox, pagenum |-> all_formulas[i].page, id |-> i]]

\* enumerate(all_formulas): the id is the 0-based position.
Enumerate(all_formulas) ==
    [i \in 1..Len(all_formulas) |->
        [bbox |-> all_formulas[i].bbox, pagenum |-> all_formulas[i].page, id |-> i - 1]]

\* for page_num in range(1, num_pages + 1): the first page that raises ends
\* the loop and the call.
RECURSIVE PagesLoop(_, _, _, _, _, _)
RECURSIVE PagesExtend(_, _, _, _, _, _)
\* A loop body that goes on to the next page when a page raises.
PagesSkip(r, e, pdf_url, page_num, num_pages, all_formulas) ==
    PagesLoop(r.s, e, pdf_url, page_num + 1, num_pages,
              IF r.ok THEN all_formulas \o r.val ELSE all_formulas)

PagesExtend(r, e, pdf_url, page_num, num_pages, all_formulas) ==
    IF ~r.ok THEN r
    ELSE PagesLoop(r.s, e, pdf_url, page_num + 1, num_pages, all_formulas \o r.val)

PagesLoop(s, e, pdf_url, page_num, num_pages, all_formulas) ==
    IF page_num > num_pages THEN Ok(s, all_formulas)
    ELSE PagesExtend(get_pdf_page_regions(s, e, pdf_url, page_num),
                     e, pdf_url, page_num, num_pages, all_formulas)

\* Lines 236-240: "index" in the trace is the list the call returns.
get_pdf_regions_enumerate(r, pdf_url) ==
    IF ~r.ok THEN r
    ELSE Ok(Log(r.s, "index", pdf_url, Enumerate(r.val)), Enumerate(r.val))

\* Lines 224-233, given the bytes download_pdf returned.
get_pdf_regions_pages(d, e, pdf_url) ==
    IF ~d.ok THEN d
    ELSE get_pdf_regions_enumerate(
             PagesLoop(d.s, e, pdf_url, 1, Len(PdfPages(d.val)), <<>>), pdf_url)

get_pdf_regions(s, e, pdf_url) ==
    get_pdf_regions_pages(download_pdf(s, e, resolve_pdf_path(pdf_url)),
                          e, resolve_pdf_path(pdf_url))

\* ------------------------------------------------------ region recognizer
\* A variant that rounds to the nearest pixel.
ToPixelRounded(x, size) == (2 * x[1] * size + x[2]) \div (2 * x[2])

\* int(x * size) for a normalized x = n / d with d > 0: int() drops the
\* fraction, towards zero for a negative product too.  The floats of the
\* code are exact rationals here.
ToPixel(x, size) ==
    IF x[1] * size >= 0 THEN (x[1] * size) \div x[2]
    ELSE -((-(x[1] * size)) \div x[2])

Crop(bbox, page_image) ==
    << ToPixel(bbox[1], page_image.width), ToPixel(bbox[2], page_image.height),
       ToPixel(bbox[3], page_image.width), ToPixel(bbox[4], page_image.height) >>

NoLatex == <<>>
\* p2t.recognize_formula(image): a text determined by the pixels cropped.
recognize_formula(page_image, crop) ==
    <<page_image.doc, page_image.ver, page_image.page, crop>>

\* The trace keeps how a call of get_pdf_latex ended once the index is
\* known: "region" with the index length and the outcome.
RegionOut(s, key, n, out) == Log(s, "region", key, [n |-> n, out |-> out])

\* Lines 293-310, given the page get_cached_page returned: "recognize" in
\* the trace is p2t.recognize_formula running.
get_pdf_latex_recognize(p, e, pdf_url, latex_id, regions) ==
    IF ~p.ok THEN Fail(RegionOut(p.s, <<pdf_url, latex_id>>, Len(regions), p.val), p.val)
    ELSE Ok(RegionOut(
                Log(p.s, "recognize", <<pdf_url, latex_id>>,
                    [image |-> p.val,
                     crop |-> Crop(regions[latex_id + 1].bbox, p.val),
                     raised |-> latex_id \in e.recBad]),
                <<pdf_url, latex_id>>, Len(regions), "ok"),
            [latex |-> IF latex_id \in e.recBad THEN NoLatex
                       ELSE recognize_formula(
                                p.val, Crop(regions[latex_id + 1].bbox, p.val))])

\* A body that fetches the first page before it looks at the region id.
get_pdf_latex_validate_late(g, e, pdf_url, latex_id) ==
    IF ~g.ok THEN g
    ELSE IF latex_id < 0 \/ latex_id >= Len(g.val)
    THEN Fail(RegionOut(Log(get_cached_page(g.s, e, pdf_url, 1).s, "raise",
                            <<pdf_url, latex_id>>, "ValueError: Invalid region ID"),
                        <<pdf_url, latex_id>>, Len(g.val),
                        "ValueError: Invalid region ID"),
              "ValueError: Invalid region ID")
    ELSE get_pdf_latex_recognize(
             get_cached_page(g.s, e, pdf_url, g.val[latex_id + 1].pagenum),
             e, pdf_url, latex_id, g.val)

\* Lines 278-290, given the index get_pdf_regions returned.
get_pdf_latex_validate(g, e, pdf_url, latex_id) ==
    IF ~g.ok THEN g
    ELSE IF latex_id < 0 \/ latex_id >= Len(g.val)
    THEN Fail(RegionOut(Log(g.s, "raise", <<pdf_url, latex_id>>,
                            "ValueError: Invalid region ID"),
                        <<pdf_url, latex_id>>, Len(g.val),
                        "ValueError: Invalid region ID"),
              "ValueError: Invalid region ID")
    ELSE get_pdf_latex_recognize(
             get_cached_page(g.s, e, pdf_url, g.val[latex_id + 1].pagenum),
             e, pdf_url, latex_id, g.val)

get_pdf_latex_body(s, e, pdf_url, latex_id) ==
    get_pdf_latex_validate(get_pdf_regions(s, e, pdf_url), e, pdf_url, latex_id)

\* A memoizing wrapper that keeps no entry for an empty text.
get_pdf_latex_store_nonempty(r, key) ==
    IF ~r.ok THEN r
    ELSE IF r.val.latex = NoLatex THEN r
    ELSE Ok([Evict(r.s, "lx", r.s.lx, LatexMaxsize)
                EXCEPT !.lx = CachePut(@, key, r.val, LatexMaxsize)],
            r.val)

\* lru_cache(maxsize=2048) on a miss, given what the body returned.
get_pdf_latex_store(r, key) ==
    IF ~r.ok THEN r
    ELSE Ok([Evict(r.s, "lx", r.s.lx, LatexMaxsize)
                EXCEPT !.lx = CachePut(@, key, r.val, LatexMaxsize)],
            r.val)

get_pdf_latex(s, e, pdf_url, latex_id) ==
    IF CacheHas(s.lx, <<pdf_url, latex_id>>)
    THEN Ok([s EXCEPT !.lx = CacheTouch(@, <<pdf_url, latex_id>>)],
            CacheGet(s.lx, <<pdf_url, latex_id>>))
    ELSE get_pdf_latex_store(get_pdf_latex_body(s, e, pdf_url, latex_id),
                             <<pdf_url, latex_id>>)

\* ---------------------------------------------------------------- handlers
\* A handler returns the pipeline state it leaves and its response.
Resp(kind, val) == [kind |-> kind, val |-> val]
Done(s, resp) == [s |-> s, resp |-> resp]

\* get_spoken_math_cached: a memoized pure text transform of the latex.
get_spoken_math_cached(latex) == <<"spoken", latex>>

get_pdf_respond(d) ==
    IF d.ok THEN Done(d.s, Resp("pdf", d.val)) ELSE Done(d.s, Resp("error", d.val))

get_pdf(s, e, pdf_url) == get_pdf_respond(download_pdf(s, e, resolve_pdf_path(pdf_url)))

predict_math_regions_respond(g) ==
    IF ~g.ok THEN Done(g.s, Resp("error", g.val))
    ELSE IF g.val = <<>> THEN Done(g.s, Resp("message", "No math formulas found"))
    ELSE Done(g.s, Resp("regions", g.val))

predict_math_regions(s, e, pdf_url) ==
    predict_math_regions_respond(get_pdf_regions(s, e, resolve_pdf_path(pdf_url)))

get_latex_for_region_respond(r) ==
    IF r.ok THEN Done(r.s, Resp("latex", r.val.latex))
    ELSE Done(r.s, Resp("error", r.val))

get_latex_for_region(s, e, region_id, pdf_url) ==
    get_latex_for_region_respond(
        get_pdf_latex(s, e, resolve_pdf_path(pdf_url), region_id))

\* One entry of the bulk answer (lines 593-606).
SpokenEntry(region_id, latex) ==
    [id |-> region_id, latex |-> latex,
     spoken_math |-> IF latex # NoLatex THEN get_spoken_math_cached(latex) ELSE NoLatex]

\* for region in regions: an exception of get_pdf_latex leaves an entry with
\* empty latex; the identifier goes to get_pdf_latex as the client gave it.
RECURSIVE SpokenLoop(_, _, _, _, _)
RECURSIVE SpokenAppend(_, _, _, _, _)

\* A loop body that drops the region get_pdf_latex raises for.
SpokenSkip(r, e, pdf_url, regions, results) ==
    SpokenLoop(r.s, e, pdf_url, Tail(regions),
               IF r.ok /\ r.val.latex # NoLatex
               THEN Append(results, SpokenEntry(Head(regions).id, r.val.latex))
               ELSE results)

SpokenAppend(r, e, pdf_url, regions, results) ==
    SpokenLoop(r.s, e, pdf_url, Tail(regions),
               Append(results,
                      SpokenEntry(Head(regions).id,
                                  IF r.ok THEN r.val.latex ELSE NoLatex)))

SpokenLoop(s, e, pdf_url, regions, results) ==
    IF regions = <<>> THEN Done(s, Resp("spoken_math_data", results))
    ELSE SpokenAppend(get_pdf_latex(s, e, pdf_url, Head(regions).id),
                      e, pdf_url, regions, results)

get_all_spoken_math_regions(g, e, pdf_url) ==
    IF ~g.ok THEN Done(g.s, Resp("error", g.val))
    ELSE SpokenLoop(g.s, e, pdf_url, g.val, <<>>)

get_all_spoken_math(s, e, pdf_url) ==
    get_all_spoken_math_regions(get_pdf_regions(s, e, pdf_url), e, pdf_url)

\* ------------------------------------------------------------ upload store
\* cleanup_old_files: every *.pdf older than max_age_seconds is unlinked.
cleanup_old_files(folder) ==
    [l \in DOMAIN folder |-> IF folder[l] = "old" THEN "deleted" ELSE folder[l]]

\* ----------------------------------------------------------- specification
\* What goes wrong during one handler: nothing, the remote server's answer,
\* the detection model on one page, or the recognition model on one region.
\* A failure ends the call it occurs in, so one fault a handler covers the
\* outcomes of each of its steps.
NetFaults == {"404", "down"}
DetFaults == {"det1", "det2"}
RecFaults == {"rec0", "rec1"}
RegionIds == -1..3

NetOf(fault) == IF fault \in NetFaults THEN fault ELSE "200"
RecogIdents == {<<"http", "u1">>, <<"local", "l1">>}
DetBadOf(fault) == IF fault = "det1" THEN {1} ELSE IF fault = "det2" THEN {2} ELSE {}
RecBadOf(fault) == IF fault = "rec0" THEN {0} ELSE IF fault = "rec1" THEN {1} ELSE {}

Pipeline == [dl |-> dl, pg |-> pg, rg |-> rg, lx |-> lx, ev |-> <<>>]
Env(fault, recBad, who) ==
    [files |-> files, server |-> server, net |-> NetOf(fault),
     detBad |-> DetBadOf(fault), recBad |-> recBad, who |-> who]

NoIndex == [d \in Urls \cup Paths |-> <<>>]
NoLast == [op |-> "none", ident |-> <<>>, rid |-> 0, resp |-> Resp("none", <<>>),
           ev |-> <<>>, before |-> <<>>, twice |-> {}]
NoReq == [st |-> "idle", op |-> "none", ident |-> <<>>, rid |-> 0, cold |-> FALSE,
          resp |-> Resp("none", <<>>), ev |-> <<>>]
Slots == 1..MaxInflight

\* The upload directory by name: the uploads under their uuid4 and a file
\* that is no pdf.  A name is <<stem, suffix>>.
UploadIds == {"l1", "l2"}
DirNames == {<<l, "pdf">> : l \in UploadIds} \cup {<<"notes", "txt">>}
\* No file of the name was written yet; the file was unlinked.
Never == -1
Gone == -2

\* No stage call: the shape of call, with nothing in it.
NoOut == [ok |-> FALSE, val |-> "none"]
NoCall == [fn |-> "none", results |-> <<>>, bbox |-> <<>>, size |-> <<>>, out |-> NoOut]

\* Process start: empty caches, empty upload directory.
Boot ==
    /\ files = [l \in LocalIds |-> "none"]
    /\ server = [u \in UrlIds |-> 1]
    /\ dl = <<>> /\ pg = <<>> /\ rg = <<>> /\ lx = <<>>
    /\ ix = NoIndex
    /\ rastered = {}
    /\ last = NoLast
    /\ reqs = [i \in Slots |-> NoReq]
    /\ loop = 0
    /\ conc = {}
    /\ tick = 0
    /\ now = 0
    /\ mtime = [n \in DirNames |-> IF n[2] = "pdf" THEN Never ELSE 0]

Init == Boot /\ call = NoCall

\* The history ix after a trace: an index that get_pdf_regions returns is
\* recorded for its document, with whether the call evicted anything before,
\* and an eviction from any cache empties the history.
RECURSIVE IndexAfter(_, _, _)
IndexAfter(h, ev, clean) ==
    IF ev = <<>> THEN h
    ELSE IF Head(ev).t = "evict" THEN IndexAfter(NoIndex, Tail(ev), FALSE)
    ELSE IF Head(ev).t = "index"
    THEN IndexAfter([h EXCEPT ![Head(ev).k] =
                        << [regions |-> Head(ev).a, clean |-> clean] >>],
                    Tail(ev), clean)
    ELSE IndexAfter(h, Tail(ev), clean)

\* The history rastered after a trace: the page keys get_pdf_page_image has
\* rasterized and the cache of get_cached_page has not evicted since.
RasteredStep(h, x) ==
    IF x.t = "evict" THEN (IF x.a = "pg" THEN h \ {x.k} ELSE h)
    ELSE IF x.t = "raster" THEN (IF x.a = "cached_page" THEN h \cup {x.k} ELSE h)
    ELSE h

RECURSIVE RasteredAfter(_, _)
RasteredAfter(h, ev) ==
    IF ev = <<>> THEN h ELSE RasteredAfter(RasteredStep(h, Head(ev)), Tail(ev))

\* The page keys a trace rasterizes for get_cached_page while the history
\* holds them.
RasteredAgain(h, x) ==
    IF x.t = "raster" THEN (IF x.a = "cached_page" /\ x.k \in h THEN {x.k} ELSE {})
    ELSE {}

RECURSIVE RasteredTwice(_, _, _)
RasteredTwice(h, ev, acc) ==
    IF ev = <<>> THEN acc
    ELSE RasteredTwice(RasteredStep(h, Head(ev)), Tail(ev),
                       acc \cup RasteredAgain(h, Head(ev)))

\* The caches a handler leaves.
Commit(h) ==
    /\ dl' = h.s.dl /\ pg' = h.s.pg /\ rg' = h.s.rg /\ lx' = h.s.lx

Record(op, ident, rid, h) ==
    last' = [op |-> op, ident |-> ident, rid |-> rid, resp |-> h.resp, ev |-> h.s.ev,
             before |-> ix[resolve_pdf_path(ident)],
             twice |-> RasteredTwice(rastered, h.s.ev, {})]

\* ------------------------------------------------- the index specification
\* The Source Resolver, the Region Detector and the Region Index under
\* changing remote content: get_pdf, predict_math_regions, upload_pdf.
RanIndex(op, ident, h) ==
    /\ Commit(h)
    /\ Record(op, ident, 0, h)
    /\ ix' = IndexAfter(ix, h.s.ev, TRUE)
    /\ tick' = 1 - tick
    /\ UNCHANGED <<files, server, rastered, reqs, loop, conc, call, now, mtime>>

GetPdf ==
    \E ident \in Idents, fault \in {"none"} \cup NetFaults :
        RanIndex("get_pdf", ident, get_pdf(Pipeline, Env(fault, {}, 0), ident))

PredictMathRegions ==
    \E ident \in Idents, fault \in {"none", "down"} \cup DetFaults :
        RanIndex("predict_math_regions", ident,
                 predict_math_regions(Pipeline, Env(fault, {}, 0), ident))

\* upload_pdf: the cleanup, then the new file under a fresh uuid4.
UploadPdf ==
    /\ loop = 0
    /\ \E pdf_id \in LocalIds :
        /\ files[pdf_id] = "none"
        /\ files' = [cleanup_old_files(files) EXCEPT ![pdf_id] = "fresh"]
    /\ UNCHANGED <<server, dl, pg, rg, lx, ix, rastered, last, reqs, loop, conc, call, tick,
                   now, mtime>>

\* The remote server starts to serve new content for a URL.
ServerUpdate ==
    /\ \E u \in {"u1"} :
        /\ server[u] = 1
        /\ server' = [server EXCEPT ![u] = 2]
    /\ UNCHANGED <<files, dl, pg, rg, lx, ix, rastered, last, reqs, loop, conc, call, tick,
                   now, mtime>>

NextIndex ==
    \/ GetPdf
    \/ PredictMathRegions
    \/ UploadPdf
    \/ ServerUpdate

SpecIndex == Init /\ [][NextIndex]_vars

\* -------------------------------------------- the recognizer specification
\* The whole pipeline under the recognition endpoints:
\* get_latex_for_region, get_all_spoken_math, upload_pdf.
RanLatex(op, ident, rid, h) ==
    /\ Commit(h)
    /\ Record(op, ident, rid, h)
    /\ rastered' = RasteredAfter(rastered, h.s.ev)
    /\ UNCHANGED <<files, server, ix, reqs, loop, conc, call, tick, now, mtime>>

GetLatexForRegion ==
    \E ident \in RecogIdents, rid \in RegionIds,
       fault \in {"none", "down", "rec"} \cup DetFaults :
        RanLatex("get_latex_for_region", ident, rid,
                 get_latex_for_region(Pipeline,
                     Env(fault, IF fault = "rec" THEN {rid} ELSE {}, 0), rid, ident))

GetAllSpokenMath ==
    \E ident \in RecogIdents, fault \in {"none", "down"} \cup DetFaults \cup RecFaults :
        RanLatex("get_all_spoken_math", ident, 0,
                 get_all_spoken_math(Pipeline, Env(fault, RecBadOf(fault), 0), ident))

Next ==
    \/ GetLatexForRegion
    \/ GetAllSpokenMath
    \/ UploadPdf

Spec == Init /\ [][Next]_vars

\* ------------------------------------------------- the cache specification
\* The recognizer endpoints with the models' failures left to the detection
\* of one page and the recognition of the region asked for, and with the
\* history tick, for the properties that hold a handler against the caches
\* it started from.
RanCache(op, ident, rid, h) ==
    /\ Commit(h)
    /\ Record(op, ident, rid, h)
    /\ rastered' = RasteredAfter(rastered, h.s.ev)
    /\ tick' = 1 - tick
    /\ UNCHANGED <<files, server, ix, reqs, loop, conc, call, now, mtime>>

LatexForRegion ==
    \E ident \in RecogIdents, rid \in RegionIds, fault \in {"none", "det1", "rec"} :
        RanCache("get_latex_for_region", ident, rid,
                 get_latex_for_region(Pipeline,
                     Env(fault, IF fault = "rec" THEN {rid} ELSE {}, 0), rid, ident))

AllSpokenMath ==
    \E ident \in RecogIdents :
        RanCache("get_all_spoken_math", ident, 0,
                 get_all_spoken_math(Pipeline, Env("none", {}, 0), ident))

NextCache == LatexForRegion \/ AllSpokenMath \/ UploadPdf
SpecCache == Init /\ [][NextCache]_vars

\* -------------------------------------------- the concurrent specification
\* Requests in flight together.  The server accepts a request (Arrive); the
\* event loop, when it runs no handler, starts the handler of a pending
\* request (Start); the handler, `async def` around blocking calls with no
\* await, keeps the loop until it returns (Finish).
InFlight(i) == reqs[i].st \in {"pending", "running"}

Arrive(i) ==
    /\ reqs[i].st \in {"idle", "done"}
    /\ \E op \in {"get_pdf", "get_all_spoken_math"}, ident \in Idents :
        /\ op = "get_all_spoken_math" => ident \in RecogIdents
        /\ reqs' = [reqs EXCEPT ![i] =
                      [NoReq EXCEPT !.st = "pending", !.op = op, !.ident = ident,
                                    !.cold = ~CacheHas(dl, resolve_pdf_path(ident))]]
    /\ conc' = {c \in conc : i \notin c} \cup {{i, j} : j \in {k \in Slots \ {i} : InFlight(k)}}
    /\ UNCHANGED <<files, server, dl, pg, rg, lx, ix, rastered, last, loop, call, tick, now, mtime>>

Start(i) ==
    /\ loop = 0
    /\ reqs[i].st = "pending"
    /\ reqs' = [reqs EXCEPT ![i].st = "running"]
    /\ loop' = i
    /\ UNCHANGED <<files, server, dl, pg, rg, lx, ix, rastered, last, conc, call, tick, now, mtime>>

Returned(i, h) ==
    /\ Commit(h)
    /\ reqs' = [reqs EXCEPT ![i].st = "done", ![i].resp = h.resp, ![i].ev = h.s.ev]
    /\ loop' = 0
    /\ UNCHANGED <<files, server, ix, rastered, last, conc, call, tick, now, mtime>>

Finish(i) ==
    /\ loop = i
    /\ reqs[i].st = "running"
    /\ \/ /\ reqs[i].op = "get_pdf"
          /\ \E fault \in {"none"} \cup NetFaults :
                Returned(i, get_pdf(Pipeline, Env(fault, {}, i), reqs[i].ident))
       \/ /\ reqs[i].op = "get_all_spoken_math"
          /\ \E fault \in {"none", "down"} :
                Returned(i, get_all_spoken_math(Pipeline, Env(fault, {}, i),
                                                reqs[i].ident))

NextConc ==
    \/ \E i \in Slots : Arrive(i)
    \/ \E i \in Slots : Start(i)
    \/ \E i \in Slots : Finish(i)
    \/ UploadPdf

SpecConc == Init /\ [][NextConc]_vars

\* ------------------------------------------------------------ trace queries
EventsOf(ev, t) == {i \in 1..Len(ev) : ev[i].t = t}
HasEvent(ev, t) == EventsOf(ev, t) # {}
FirstEvent(ev, t) == ev[CHOOSE i \in EventsOf(ev, t) : \A j \in EventsOf(ev, t) : i <= j]
KeysOf(ev, t) == {ev[i].k : i \in EventsOf(ev, t)}
CountOf(ev, t, k) == Cardinality({i \in EventsOf(ev, t) : ev[i].k = k})

IsRegionsEvent(x) == x.t = "regions"
PageLists(ev) == SelectSeq(ev, IsRegionsEvent)
RECURSIVE Flatten(_)
Flatten(lists) == IF lists = <<>> THEN <<>> ELSE Head(lists).a \o Flatten(Tail(lists))

\* The last handler was predict_math_regions and answered with a region list
\* (the empty list is answered as a message).
Listed ==
    /\ last.op = "predict_math_regions"
    /\ last.resp.kind \in {"regions", "message"}
ListOf == IF last.resp.kind = "regions" THEN last.resp.val ELSE <<>>

ConcurrentPairs ==
    {c \in conc : \A i \in c : reqs[i].st = "done"}

\* ------------------------------------------------------------------ claims
\* C1: for every page key that is not cached, the get_cached_page calls of
\* two requests in flight together run get_pdf_page_image exactly once, and
\* every one of those calls returns the same image.
C1_PageRasterizerSingleFlight ==
    \A c \in ConcurrentPairs : \A a \in c : \A b \in c \ {a} :
        \A k \in KeysOf(reqs[a].ev, "page") \cap KeysOf(reqs[b].ev, "page") :
            CountOf(reqs[a].ev, "page_image", k) + CountOf(reqs[b].ev, "page_image", k) >= 1
            => /\ CountOf(reqs[a].ev, "page_image", k)
                  + CountOf(reqs[b].ev, "page_image", k) = 1
               /\ \A i \in EventsOf(reqs[a].ev, "page") : \A j \in EventsOf(reqs[b].ev, "page") :
                     (reqs[a].ev[i].k = k /\ reqs[b].ev[j].k = k)
                     => /\ reqs[a].ev[i].a.ok /\ reqs[b].ev[j].a.ok
                        /\ reqs[a].ev[i].a.val = reqs[b].ev[j].a.val

\* C2: two get_pdf requests in flight together for the same document key,
\* which the download_pdf cache does not hold when they arrive, run the body
\* of download_pdf exactly once between them and get the same answer, bytes
\* or error.
C2_SourceResolverSingleFlight ==
    \A c \in ConcurrentPairs : \A a \in c : \A b \in c \ {a} :
        ( /\ reqs[a].op = "get_pdf" /\ reqs[b].op = "get_pdf"
          /\ resolve_pdf_path(reqs[a].ident) = resolve_pdf_path(reqs[b].ident)
          /\ reqs[a].cold /\ reqs[b].cold )
        => /\ Cardinality(EventsOf(reqs[a].ev, "download"))
              + Cardinality(EventsOf(reqs[b].ev, "download")) = 1
           /\ reqs[a].resp = reqs[b].resp

\* C3: while the handler of a get_pdf request is fetching a document the
\* cache does not hold, a pending get_pdf request for a different document
\* can start.
C3_UnrelatedKeysNotSerialized ==
    \A a \in Slots : \A b \in Slots \ {a} :
        ( /\ reqs[a].st = "running" /\ reqs[a].op = "get_pdf"
          /\ ~CacheHas(dl, resolve_pdf_path(reqs[a].ident))
          /\ reqs[b].st = "pending" /\ reqs[b].op = "get_pdf"
          /\ resolve_pdf_path(reqs[b].ident) # resolve_pdf_path(reqs[a].ident) )
        => ENABLED Start(b)

\* C4, as stated: a get_pdf_regions call returns the list that the previous
\* call for the same document returned, when no cache evicted an entry after
\* that previous call returned.
C4_IdStabilityBetween ==
    (Listed /\ last.before # <<>>) => ListOf = last.before[1].regions

\* C4, amended: a get_pdf_regions call returns the list (ids, page numbers,
\* order, bboxes) that the previous call for the same document returned,
\* when no cache evicted an entry during that previous call or after it.
C4_IdStability ==
    (Listed /\ last.before # <<>> /\ last.before[1].clean)
    => ListOf = last.before[1].regions

\* The same document listed twice with nothing evicted, the remote server
\* having changed its content.
C4_Witness ==
    /\ Listed /\ last.before # <<>> /\ last.before[1].clean
    /\ Len(ListOf) = 3
    /\ last.ident = <<"http", "u1">> /\ server["u1"] = 2

\* C5: get_pdf_regions visits the pages 1..N in ascending order and returns
\* the concatenation of the pages' regions in detection order, the k-th
\* entry with id k-1: the ids are 0..len-1 and the entries are ordered by
\* page; a 3-page document with 2 regions on page 1 and none on pages 2 and
\* 3 gives exactly the ids 0 and 1, both on page 1.
C5_IdAssignment ==
    Listed =>
        /\ Len(PageLists(last.ev))
             = Len(PdfPages(CacheGet(dl, resolve_pdf_path(last.ident))))
        /\ \A p \in 1..Len(PageLists(last.ev)) : PageLists(last.ev)[p].k[2] = p
        /\ Len(ListOf) = Len(Flatten(PageLists(last.ev)))
        /\ \A k \in 1..Len(ListOf) :
              /\ ListOf[k].id = k - 1
              /\ ListOf[k].bbox = Flatten(PageLists(last.ev))[k].bbox
              /\ ListOf[k].pagenum = Flatten(PageLists(last.ev))[k].page
        /\ \A j \in 1..Len(ListOf) : \A k \in j..Len(ListOf) :
              ListOf[j].pagenum <= ListOf[k].pagenum
        /\ ( /\ Len(PageLists(last.ev)) = 3
             /\ Len(PageLists(last.ev)[1].a) = 2
             /\ PageLists(last.ev)[2].a = <<>>
             /\ PageLists(last.ev)[3].a = <<>> )
           => /\ Len(ListOf) = 2
              /\ ListOf[1].id = 0 /\ ListOf[2].id = 1
              /\ ListOf[1].pagenum = 1 /\ ListOf[2].pagenum = 1

\* A 3-page document listed with 2 regions on page 1 and none after.
C5_Witness ==
    /\ Listed /\ last.resp.kind = "regions"
    /\ Len(PageLists(last.ev)) = 3
    /\ Len(PageLists(last.ev)[1].a) = 2
    /\ PageLists(last.ev)[2].a = <<>> /\ PageLists(last.ev)[3].a = <<>>

\* C6: a get_pdf_latex call on a document whose index has L entries raises
\* the invalid-region-id error when region_id < 0 or region_id >= L, and
\* returns a recognition result when region_id = 0 and L >= 1.
C6_BoundsChecking ==
    \A i \in EventsOf(last.ev, "region") :
        /\ (last.ev[i].k[2] < 0 \/ last.ev[i].k[2] >= last.ev[i].a.n)
           => last.ev[i].a.out = "ValueError: Invalid region ID"
        /\ (last.ev[i].k[2] = 0 /\ last.ev[i].a.n >= 1)
           => last.ev[i].a.out = "ok"

\* C7: get_all_spoken_math on a document with n indexed regions answers with
\* exactly n entries, one per region id in index order; the entry of a
\* region for which p2t.recognize_formula raises has empty latex and empty
\* spoken_math, the entry of a region for which it returns has them set.
C7_PartialFailureContainment ==
    (last.op = "get_all_spoken_math" /\ last.resp.kind = "spoken_math_data")
    => /\ Len(last.resp.val) = Len(FirstEvent(last.ev, "index").a)
       /\ \A i \in 1..Len(last.resp.val) :
             /\ last.resp.val[i].id = FirstEvent(last.ev, "index").a[i].id
             /\ last.resp.val[i].id = i - 1
       /\ \A j \in EventsOf(last.ev, "recognize") :
             /\ last.ev[j].k[2] + 1 \in 1..Len(last.resp.val)
             /\ IF last.ev[j].a.raised
                THEN /\ last.resp.val[last.ev[j].k[2] + 1].latex = NoLatex
                     /\ last.resp.val[last.ev[j].k[2] + 1].spoken_math = NoLatex
                ELSE /\ last.resp.val[last.ev[j].k[2] + 1].latex
                          = recognize_formula(last.ev[j].a.image, last.ev[j].a.crop)
                     /\ last.resp.val[last.ev[j].k[2] + 1].latex # NoLatex
                     /\ last.resp.val[last.ev[j].k[2] + 1].spoken_math # NoLatex

\* A bulk call on 3 regions in which the model raises for region 1 only.
C7_Witness ==
    /\ last.op = "get_all_spoken_math" /\ last.resp.kind = "spoken_math_data"
    /\ Len(last.resp.val) = 3
    /\ Cardinality(EventsOf(last.ev, "recognize")) = 3
    /\ \E j \in EventsOf(last.ev, "recognize") :
          last.ev[j].k[2] = 1 /\ last.ev[j].a.raised
    /\ last.resp.val[1].latex # NoLatex
    /\ last.resp.val[2].latex = NoLatex
    /\ last.resp.val[3].latex # NoLatex

\* C8: a get_pdf_regions call in which the fetch, the rasterization or the
\* detection of any page raises ends with that error and returns no list,
\* whatever pages it has detected before.
C8_NoPartialIndex ==
    (last.op = "predict_math_regions" /\ HasEvent(last.ev, "raise"))
    => /\ last.resp.kind = "error"
       /\ last.resp.val = FirstEvent(last.ev, "raise").a
       /\ ~HasEvent(last.ev, "index")

\* The detection of page 2 raises after page 1 was detected in the same call.
C8_Witness ==
    /\ last.op = "predict_math_regions" /\ last.resp.kind = "error"
    /\ HasEvent(last.ev, "raise")
    /\ FirstEvent(last.ev, "raise").a = "ModelFailure"
    /\ \E i \in EventsOf(last.ev, "detect") : \E j \in EventsOf(last.ev, "regions") :
          /\ i < j /\ last.ev[i].k[2] = 1 /\ last.ev[j].k[2] = 1
          /\ last.ev[j].a # <<>>

\* C9: the image math_detector.detect runs on is the image get_cached_page
\* holds for the page, and a handler that lists and then recognizes
\* rasterizes no page twice.
C9_DetectorUsesCachedPage ==
    /\ \A i \in EventsOf(last.ev, "detect") : last.ev[i].a.owner[1] = "cached_page"
    /\ \A i \in EventsOf(last.ev, "raster") : \A j \in EventsOf(last.ev, "raster") :
          (last.ev[i].k = last.ev[j].k) => i = j

\* C10: get_pdf_latex calls for regions of one page rasterize the page at
\* most once while the cache of get_cached_page keeps the page.
C10_RecognizerReusesCachedPage ==
    last.op \in {"get_latex_for_region", "get_all_spoken_math"} => last.twice = {}

\* Region 1 of a document is recognized on the page image that an earlier
\* call, for region 0 of the same page, rasterized.
C10_Witness ==
    /\ last.op = "get_latex_for_region" /\ last.rid = 1
    /\ last.ident = <<"http", "u1">>
    /\ last.resp.kind = "latex" /\ last.resp.val # NoLatex
    /\ HasEvent(last.ev, "recognize") /\ HasEvent(last.ev, "page")
    /\ ~HasEvent(last.ev, "page_image")
    /\ <<<<"http", "u1">>, 1>> \in rastered
    /\ CacheHas(lx, <<<<"http", "u1">>, 0>>)

\* ------------------------------------------------------- claims, continued
\* A step of a handler of the pipeline: it leaves the upload directory and
\* the remote servers as they are, and last' holds its trace.
HandlerStep == files' = files /\ server' = server

\* The page keys for which a trace runs math_detector.detect although the
\* key is held: h is the set of keys held when the trace starts.  An entry
\* of get_pdf_page_regions is held from the call that returns it to its
\* eviction (stored); as stated by C11, a key is held from the first
\* invocation of the model on it, whether the invocation returned or not.
DetectStep(h, x, stored) ==
    IF x.t = "evict" THEN (IF x.a = "rg" THEN h \ {x.k} ELSE h)
    ELSE IF x.t = "regions" THEN h \cup {x.k}
    ELSE IF x.t = "detect" THEN (IF stored THEN h ELSE h \cup {x.k})
    ELSE h

DetectAgain(h, x) ==
    IF x.t = "detect" THEN (IF x.k \in h THEN {x.k} ELSE {}) ELSE {}

RECURSIVE DetectedTwice(_, _, _, _)
DetectedTwice(h, ev, acc, stored) ==
    IF ev = <<>> THEN acc
    ELSE DetectedTwice(DetectStep(h, Head(ev), stored), Tail(ev),
                       acc \cup DetectAgain(h, Head(ev)), stored)

\* C11, as stated: over two handlers in a row, math_detector.detect is
\* invoked at most once for a page key while no entry of that key is
\* evicted from the cache of get_pdf_page_regions.
C11_DetectionOncePerPageKey ==
    [][HandlerStep => DetectedTwice({}, last.ev \o last'.ev, {}, FALSE) = {}]_tick

\* C11, amended: once get_pdf_page_regions has returned the regions of a
\* page key, no handler invokes math_detector.detect for that key until the
\* entry is evicted.
C11_DetectionOncePerStoredEntry ==
    [][HandlerStep => DetectedTwice(CacheKeys(rg), last'.ev, {}, TRUE) = {}]_tick

\* A bulk call on a document that finds the regions of both pages stored.
C11_Witness ==
    /\ last.op = "get_all_spoken_math" /\ last.resp.kind = "spoken_math_data"
    /\ last.ident = <<"http", "u1">>
    /\ \E i \in EventsOf(last.ev, "regions") : last.ev[i].k = <<<<"http", "u1">>, 2>>
    /\ ~HasEvent(last.ev, "detect")
    /\ CacheHas(rg, <<<<"http", "u1">>, 1>>) /\ CacheHas(rg, <<<<"http", "u1">>, 2>>)

\* The page keys a trace evicts from the cache of get_cached_page.
PageEvicted(ev) ==
    {ev[i].k : i \in {j \in EventsOf(ev, "evict") : ev[j].a = "pg"}}

\* The page keys for which a trace runs get_pdf_page_image although
\* get_cached_page holds the key: h is the set of keys held at the start.
PageStep(h, x) ==
    IF x.t = "evict" THEN (IF x.a = "pg" THEN h \ {x.k} ELSE h)
    ELSE IF x.t = "page" THEN (IF x.a.ok THEN h \cup {x.k} ELSE h)
    ELSE h

PageAgain(h, x) ==
    IF x.t = "page_image" THEN (IF x.k \in h THEN {x.k} ELSE {}) ELSE {}

RECURSIVE PageMissed(_, _, _)
PageMissed(h, ev, acc) ==
    IF ev = <<>> THEN acc
    ELSE PageMissed(PageStep(h, Head(ev)), Tail(ev), acc \cup PageAgain(h, Head(ev)))

\* C12: a handler that evicts page keys from the cache of get_cached_page
\* leaves every other page key cached with the image it had, and a
\* get_cached_page call for a key that is held rasterizes nothing.
C12_PageEvictionIndependence ==
    [][HandlerStep =>
        /\ \A k \in CacheKeys(pg) \ PageEvicted(last'.ev) :
              CacheHas(pg', k) /\ CacheGet(pg', k) = CacheGet(pg, k)
        /\ PageMissed(CacheKeys(pg), last'.ev, {}) = {}]_tick

\* Page 2 of a document is evicted, page 1 of the same document stays.
C12_Witness ==
    /\ <<<<"http", "u1">>, 2>> \in PageEvicted(last.ev)
    /\ <<<<"http", "u1">>, 1>> \notin PageEvicted(last.ev)
    /\ CacheHas(pg, <<<<"http", "u1">>, 1>>)
    /\ ~CacheHas(pg, <<<<"http", "u1">>, 2>>)

\* The order of use of the keys of get_cached_page, read from a trace: c is
\* the cache when the trace starts, n a position in the trace.
Largest(S) == CHOOSE i \in S : \A j \in S : j <= i
PosIn(c, k) == IF CacheHas(c, k) THEN CHOOSE i \in 1..Len(c) : c[i].k = k ELSE 0
LastUse(ev, k, n) ==
    Largest({0} \cup {i \in EventsOf(ev, "page") : i < n /\ ev[i].a.ok /\ ev[i].k = k})
LastEvict(ev, k, n) ==
    Largest({0} \cup {i \in EventsOf(ev, "evict") :
                         i < n /\ ev[i].a = "pg" /\ ev[i].k = k})
\* 0 for a key never seen; keys of the cache come before keys the trace uses.
Recency(c, ev, k, n) ==
    IF LastUse(ev, k, n) > 0 THEN Len(c) + LastUse(ev, k, n) ELSE PosIn(c, k)
Held(c, ev, k, n) ==
    /\ Recency(c, ev, k, n) > 0
    /\ LastEvict(ev, k, n) = 0 \/ LastEvict(ev, k, n) < LastUse(ev, k, n)
HeldKeys(c, ev, n) ==
    {k \in CacheKeys(c) \cup KeysOf(ev, "page") : Held(c, ev, k, n)}

\* After a handler the cache holds the keys by order of their last use, and
\* every eviction found the cache full and took the key used longest ago.
LruOrder(c, after, ev) ==
    /\ CacheKeys(after) = HeldKeys(c, ev, Len(ev) + 1)
    /\ \A i \in 1..Len(after) : \A j \in 1..Len(after) :
          i < j => Recency(c, ev, after[i].k, Len(ev) + 1)
                     < Recency(c, ev, after[j].k, Len(ev) + 1)
    /\ \A n \in EventsOf(ev, "evict") :
          ev[n].a = "pg"
          => /\ ev[n].k \in HeldKeys(c, ev, n)
             /\ Cardinality(HeldKeys(c, ev, n)) = PageMaxsize
             /\ \A k \in HeldKeys(c, ev, n) \ {ev[n].k} :
                   Recency(c, ev, ev[n].k, n) < Recency(c, ev, k, n)

NoDuplicateKeys(c) == Cardinality(CacheKeys(c)) = Len(c)

MaxDets == 3

StageUrl == <<"http", "u1">>
\* The page image both computations see: u1's first page, of a given size.
StageImage(size) ==
    [doc |-> "u1", ver |-> 1, page |-> 1, width |-> size[1], height |-> size[2],
     owner |-> <<"cached_page", 0>>]
StageSizes == {<<1000, 2000>>, <<800, 1000>>, <<600, 800>>}
DetectSize == <<1000, 2000>>

\* A dict with 'score' and no 'box'.
NoBox ==
    [isdict |-> TRUE, hasbox |-> FALSE, hasscore |-> TRUE, score |-> 90, box |-> <<>>]
\* What math_detector.detect may put in its list: boxes in pixels of the
\* page image, and the shapes the loop has to cope with.
DetKinds ==
    { Det(90, Box(100, 400, 500, 1200)),
      Det(75, Box(600, 100, 900, 300)),
      Det(74, Box(10, 10, 20, 20)),
      NoScore(Box(1, 1, 2, 2)),
      NoBox,
      NotADict,
      Det(90, <<Pt(100, 400), Pt(500, 400)>>),
      Det(90, <<Pt(500, 1200), Pt(100, 1200), Pt(100, 400), Pt(500, 400)>>),
      Det(80, Box(-50, 100, 1200, 300)) }
DetectorOutputs == UNION {[1..n -> DetKinds] : n \in 0..MaxDets}

\* Normalized coordinates a stored region may carry.
StageFracs ==
    { Frac(100, 1000), Frac(400, 2000), Frac(500, 1000), Frac(1200, 2000),
      Frac(55, 600), Frac(999, 1000), Frac(-55, 600) }
StageBoxes == {<<a, b, c, d>> : a \in StageFracs, b \in StageFracs,
                                c \in StageFracs, d \in StageFracs}

StageCalls ==
    {[fn |-> "detect", results |-> r, bbox |-> <<>>, size |-> DetectSize, out |-> NoOut] :
        r \in DetectorOutputs}
    \cup
    {[fn |-> "crop", results |-> <<>>, bbox |-> b, size |-> z, out |-> NoOut] :
        b \in StageBoxes, z \in StageSizes}

InitStage == Boot /\ call \in StageCalls

Returns(r) == [ok |-> r.ok, val |-> r.val]

\* math_detector.detect returned call.results for the page: lines 198-212.
DetectFormulas ==
    /\ call.fn = "detect" /\ call.out = NoOut
    /\ call' = [call EXCEPT !.out =
           Returns(detect_formulas(Pipeline, Env("none", {}, 0), StageImage(call.size),
                       StageUrl, 1,
                       ParseResults(call.results, StageImage(call.size), 1, <<>>)))]
    /\ UNCHANGED <<files, server, dl, pg, rg, lx, ix, rastered, last, reqs, loop, conc, tick,
                   now, mtime>>

\* get_cached_page returned the page of region 0, whose bbox is call.bbox:
\* lines 293-310.
CropRegion ==
    /\ call.fn = "crop" /\ call.out = NoOut
    /\ call' = [call EXCEPT !.out =
           Returns(get_pdf_latex_recognize(
                       Ok(Pipeline, StageImage(call.size)), Env("none", {}, 0),
                       StageUrl, 0,
                       <<[bbox |-> call.bbox, pagenum |-> 1, id |-> 0]>>))]
    /\ UNCHANGED <<files, server, dl, pg, rg, lx, ix, rastered, last, reqs, loop, conc, tick,
                   now, mtime>>

NextStage == DetectFormulas \/ CropRegion
SpecStage == InitStage /\ [][NextStage]_vars

\* ------------------------------------------------- claims on the stages
Detected == call.fn = "detect" /\ call.out # NoOut
Cropped == call.fn = "crop" /\ call.out # NoOut

\* A detection of the expected shape: a dict with 'box' and 'score' whose
\* box has its four corner points.
WellFormed(d) == d.isdict /\ d.hasbox /\ d.hasscore /\ Len(d.box) = 4
RECURSIVE Select(_, _)
SelectKeep(s, i) == IF WellFormed(s[i]) /\ ~(s[i].score < 75) THEN <<i>> ELSE <<>>
\* The positions, in order, of the well-formed detections with score 0.75
\* or more.
Select(s, i) == IF i > Len(s) THEN <<>> ELSE SelectKeep(s, i) \o Select(s, i + 1)
\* The box of detection d as the region it becomes on an image.
RegionOfDet(d, size) ==
    << Frac(d.box[1][1], size[1]), Frac(d.box[1][2], size[2]),
       Frac(d.box[3][1], size[1]), Frac(d.box[3][2], size[2]) >>

RegionsOfWellFormed(results, size) ==
    [j \in 1..Len(Select(results, 1)) |->
        [page |-> 1, bbox |-> RegionOfDet(results[Select(results, 1)[j]], size)]]

\* C15: whatever shape the elements of the detector's output have (no
\* dict, no 'box', no 'score', a box short of corner points), detection of
\* the page succeeds and returns the regions of the well-formed detections
\* that meet the threshold.
C15_MalformedDetectionsSkipped ==
    Detected =>
        /\ call.out.ok
        /\ call.out.val = RegionsOfWellFormed(call.results, call.size)

InUnit(x) == 0 <= x[1] /\ x[1] <= x[2]
Less(x, y) == x[1] * y[2] < y[1] * x[2]

\* C16: every region detection returns has its four bbox values within
\* [0,1], x1 < x2 and y1 < y2, whatever output the detector gave.
C16_BboxInvariant ==
    (Detected /\ call.out.ok) =>
        \A j \in 1..Len(call.out.val) :
            /\ \A i \in 1..4 : InUnit(call.out.val[j].bbox[i])
            /\ Less(call.out.val[j].bbox[1], call.out.val[j].bbox[3])
            /\ Less(call.out.val[j].bbox[2], call.out.val[j].bbox[4])

\* The rectangle the recognizer cropped in the stage call.
CropOf == call.out.val.latex[4]
SizeAt(i) == IF i \in {1, 3} THEN call.size[1] ELSE call.size[2]
\* c is n * size / d with the fraction dropped.
Truncated(c, n, d, size) ==
    IF n * size >= 0 THEN c * d <= n * size /\ n * size < (c + 1) * d
    ELSE (c - 1) * d < n * size /\ n * size <= c * d

Hour ==
    /\ loop = 0
    /\ \E l \in LocalIds : files[l] = "fresh"
    /\ files' = [l \in LocalIds |-> IF files[l] = "fresh" THEN "old" ELSE files[l]]
    /\ UNCHANGED <<server, dl, pg, rg, lx, ix, rastered, last, reqs, loop, conc, call, tick,
                   now, mtime>>

\* upload_pdf of a document no request names: the cleanup runs, and the new
\* file gets a uuid4 outside LocalIds.
UploadOther ==
    /\ loop = 0
    /\ \E l \in LocalIds : files[l] = "old"
    /\ files' = cleanup_old_files(files)
    /\ UNCHANGED <<server, dl, pg, rg, lx, ix, rastered, last, reqs, loop, conc, call, tick,
                   now, mtime>>

NextStore == GetPdf \/ UploadPdf \/ Hour \/ UploadOther
SpecStore == Init /\ [][NextStore]_vars

\* The file of a handle is in the upload directory.
InStore(ident, folder) ==
    ident[2] \in DOMAIN folder /\ folder[ident[2]] \in {"fresh", "old"}

\* C18: a get_pdf call for a local handle whose file is not in the upload
\* directory at the time of the call (never uploaded, or deleted by the
\* cleanup) answers with an error, whatever was called for the handle
\* before.
C18_MissingLocalNotFound ==
    [][(/\ HandlerStep
        /\ last'.op = "get_pdf"
        /\ last'.ident \in Handles
        /\ ~InStore(last'.ident, files))
       => last'.resp.kind = "error"]_tick

\* ================================================ liveness specification
\* Requests for remote documents on the event loop, with a remote server
\* that may stop answering: it accepts the connection and sends nothing.
Silent == 0

\* A remote server stops answering, for good.
ServerSilent ==
    /\ \E u \in UrlIds :
        /\ server[u] # Silent
        /\ server' = [server EXCEPT ![u] = Silent]
    /\ UNCHANGED <<files, dl, pg, rg, lx, ix, rastered, last, reqs, loop, conc, call, tick,
                   now, mtime>>

\* A client sends get_pdf for a remote URL.
ArriveRemote(i) ==
    /\ reqs[i].st \in {"idle", "done"}
    /\ \E ident \in Urls :
        reqs' = [reqs EXCEPT ![i] =
                    [NoReq EXCEPT !.st = "pending", !.op = "get_pdf", !.ident = ident,
                                  !.cold = ~CacheHas(dl, resolve_pdf_path(ident))]]
    /\ UNCHANGED <<files, server, dl, pg, rg, lx, ix, rastered, last, loop, conc, call, tick,
                   now, mtime>>

\* requests.get(pdf_url) is called without a timeout (line 451): on a miss of
\* download_pdf's cache it returns when the server has answered, and
\* a silent server never does.
Blocked(i) ==
    /\ is_url(reqs[i].ident)
    /\ ~CacheHas(dl, resolve_pdf_path(reqs[i].ident))
    /\ server[reqs[i].ident[2]] = Silent

\* The running get_pdf handler returns.
FinishRemote(i) ==
    /\ loop = i
    /\ reqs[i].st = "running"
    /\ ~Blocked(i)
    /\ \E fault \in {"none"} \cup NetFaults :
          Returned(i, get_pdf(Pipeline, Env(fault, {}, i), reqs[i].ident))

NextLive ==
    \/ \E i \in Slots : ArriveRemote(i)
    \/ \E i \in Slots : Start(i)
    \/ \E i \in Slots : FinishRemote(i)
    \/ ServerSilent

\* The event loop runs a pending handler when it is free, and a handler
\* whose calls return runs to its end.
SpecLive ==
    /\ Init /\ [][NextLive]_vars
    /\ WF_vars(\E i \in Slots : Start(i))
    /\ WF_vars(\E i \in Slots : FinishRemote(i))

\* C19: every get_pdf call for a remote URL that has started returns, with
\* bytes or with an error, also when the remote server never answers.
C19_BoundedRemoteFetch ==
    \A i \in Slots :
        (reqs[i].st = "running" /\ reqs[i].ident \in Urls) ~> (reqs[i].st = "done")

\* ------------------------------------------------ claims on repeated passes
\* The step is a predict_math_regions call for the document the handler
\* before it listed in a full pass.
SecondPass ==
    /\ HandlerStep
    /\ Listed
    /\ last'.op = "predict_math_regions"
    /\ last'.ident = last.ident
\* The pages the pass of the last handler went over.
PagesOfPass == Cardinality(KeysOf(last.ev, "regions"))
\* The handler of the step ran neither the detection model nor a
\* rasterization.
NoModelWork == ~HasEvent(last'.ev, "detect") /\ ~HasEvent(last'.ev, "raster")

\* C20 as stated: after a full pass over a document of any page count, the
\* next pass over the same document detects nothing and rasterizes nothing.
C20_RepeatedIndexingAnyPageCount ==
    [][SecondPass => NoModelWork]_tick

\* C20: after a full pass over a document whose pages fit in the Region
\* Detector cache, the next pass over the same document detects nothing and
\* rasterizes nothing.
C20_RepeatedIndexingWithinCapacity ==
    [][(SecondPass /\ PagesOfPass <= RegionsMaxsize) => NoModelWork]_tick

\* A second pass over the two pages of u1 that is answered from the cache:
\* the index recorded by the pass before is still there, both pages are
\* looked up and no model runs.
C20_Witness ==
    /\ Listed
    /\ last.ident = <<"http", "u1">>
    /\ last.before # <<>>
    /\ KeysOf(last.ev, "regions") = {<<<<"http", "u1">>, 1>>, <<<<"http", "u1">>, 2>>}
    /\ ~HasEvent(last.ev, "detect")
    /\ ~HasEvent(last.ev, "raster")
    /\ ~HasEvent(last.ev, "fetch")

\* ------------------------------------------------ claims on failed fetches
\* The keys for which a trace has a fetch that ended without status 200.
FailedFetches(ev) == {ev[i].k : i \in {j \in EventsOf(ev, "fetch") : ev[j].a # "200"}}
RaisedFor(ev, k) == \E i \in EventsOf(ev, "raise") : ev[i].k = k
EvictsFrom(ev, cache) == \E i \in EventsOf(ev, "evict") : ev[i].a = cache
\* A new call of download_pdf for key k in this state, the server answering.
Retry(k) == download_pdf(Pipeline, Env("none", {}, 0), k)

\* C21: a handler whose fetch fails (status 404, or the transport is down)
\* gets the exception, download_pdf's cache is what it was before the call,
\* with no entry for the key and nothing evicted; and in the state it leaves
\* a new call for the key fetches again and returns the bytes.
C21_FailedFetchLeavesCache ==
    /\ [][(HandlerStep /\ FailedFetches(last'.ev) # {}) =>
            /\ last'.resp.kind = "error"
            /\ dl' = dl
            /\ ~EvictsFrom(last'.ev, "dl")
            /\ \A k \in FailedFetches(last'.ev) :
                  RaisedFor(last'.ev, k) /\ ~CacheHas(dl', k)]_tick
    /\ [](\A k \in FailedFetches(last.ev) :
            /\ ~CacheHas(dl, k)
            /\ Retry(k).ok
            /\ HasEvent(Retry(k).s.ev, "fetch")
            /\ CacheHas(Retry(k).s.dl, k))

\* get_pdf of u1 answered 404 while download_pdf's cache is full of other
\* keys: both are still there.
C21_Witness ==
    /\ last.op = "get_pdf" /\ last.resp.kind = "error"
    /\ FailedFetches(last.ev) = {<<"http", "u1">>}
    /\ \E i \in EventsOf(last.ev, "fetch") : last.ev[i].a = "404"
    /\ Len(dl) = DownloadMaxsize
    /\ CacheKeys(dl) = {<<"http", "u2">>, <<"file", "l1">>}

\* --------------------------------------------- claims on the recognizer
\* The keys the cache of get_pdf_latex holds with an empty text.
EmptyKeys(c) == {k \in CacheKeys(c) : CacheGet(c, k).latex = NoLatex}
\* The keys held with an empty text as a trace goes on: a recognition that
\* raised adds its key, an eviction from the cache removes one.
EmptyStep(h, x) ==
    IF x.t = "evict" THEN (IF x.a = "lx" THEN h \ {x.k} ELSE h)
    ELSE IF x.t = "recognize" THEN (IF x.a.raised THEN h \cup {x.k} ELSE h)
    ELSE h
RECURSIVE EmptyAfter(_, _)
EmptyAfter(h, ev) == IF ev = <<>> THEN h ELSE EmptyAfter(EmptyStep(h, Head(ev)), Tail(ev))
EmptyAgain(h, x) ==
    IF x.t = "recognize" THEN (IF x.k \in h THEN {x.k} ELSE {}) ELSE {}
\* The keys for which a trace runs the recognition model while the key is
\* held with an empty text.
RECURSIVE RecognizedAgain(_, _, _)
RecognizedAgain(h, ev, acc) ==
    IF ev = <<>> THEN acc
    ELSE RecognizedAgain(EmptyStep(h, Head(ev)), Tail(ev), acc \cup EmptyAgain(h, Head(ev)))
\* The key of the get_pdf_latex call a single-region handler makes.
LatexKey(l) == <<resolve_pdf_path(l.ident), l.rid>>

\* C22: a recognition that raised leaves an entry with the empty text under
\* its key; while the entry is held, no handler runs the recognition model
\* for the key, the entry keeps the empty text, and the single-region call
\* for the key answers with the empty text.
C22_RecognitionFailureMemoized ==
    [][HandlerStep =>
        /\ EmptyKeys(lx') = EmptyAfter(EmptyKeys(lx), last'.ev)
        /\ RecognizedAgain(EmptyKeys(lx), last'.ev, {}) = {}
        /\ (last'.op = "get_latex_for_region" /\ LatexKey(last') \in EmptyKeys(lx))
              => (last'.resp.kind = "latex" /\ last'.resp.val = NoLatex)]_tick

\* The single-region call answered with the empty text from the cache: the
\* recognition model did not run.
C22_Witness ==
    /\ last.op = "get_latex_for_region"
    /\ last.resp.kind = "latex"
    /\ ~HasEvent(last.ev, "recognize")
    /\ LatexKey(last) \in EmptyKeys(lx)

\* =================================================== entry specification
\* The three endpoints that report the text of a region, on a remote and on
\* an uploaded document, with models that succeed.

\* get_spoken_math_for_region (lines 554-576): the identifier goes to
\* get_pdf_latex as the client gave it; an empty latex is answered as an
\* error, and so is an exception.
get_spoken_math_for_region_respond(r) ==
    IF ~r.ok THEN Done(r.s, Resp("error", r.val))
    ELSE IF r.val.latex = NoLatex
    THEN Done(r.s, Resp("error", "No LaTeX found for this region"))
    ELSE Done(r.s, Resp("spoken_math",
                        [latex |-> r.val.latex,
                         spoken_math |-> get_spoken_math_cached(r.val.latex)]))

get_spoken_math_for_region(s, e, region_id, pdf_url) ==
    get_spoken_math_for_region_respond(get_pdf_latex(s, e, pdf_url, region_id))

GetSpokenMathForRegion ==
    \E ident \in RecogIdents, rid \in RegionIds :
        RanLatex("get_spoken_math_for_region", ident, rid,
                 get_spoken_math_for_region(Pipeline, Env("none", {}, 0), rid, ident))

RegionLatex ==
    \E ident \in RecogIdents, rid \in RegionIds :
        RanLatex("get_latex_for_region", ident, rid,
                 get_latex_for_region(Pipeline, Env("none", {}, 0), rid, ident))

BulkSpokenMath ==
    \E ident \in RecogIdents :
        RanLatex("get_all_spoken_math", ident, 0,
                 get_all_spoken_math(Pipeline, Env("none", {}, 0), ident))

NextEntry == RegionLatex \/ GetSpokenMathForRegion \/ BulkSpokenMath \/ UploadPdf
SpecEntry == Init /\ [][NextEntry]_vars

\* The index of a document in this state, and what the single-region call
\* answers for one of its ids.
IndexOf(ident) == get_pdf_regions(Pipeline, Env("none", {}, 0), ident)
SingleRegion(ident, rid) ==
    get_latex_for_region(Pipeline, Env("none", {}, 0), rid, ident).resp
\* The last handler ran on the handle of an uploaded file that is there, and
\* got the index of the document.
OnUploaded ==
    /\ last.ident \in Handles /\ InStore(last.ident, files)
    /\ HasEvent(last.ev, "index")

\* C23: on an uploaded document whose file exists, the bulk call lists every
\* region of the index with the text the single-region call returns for its
\* id, and the per-region spoken-math call reports that text for its id.
C23_EntryPointsAgree ==
    /\ (last.op = "get_all_spoken_math" /\ OnUploaded) =>
          /\ last.resp.kind = "spoken_math_data"
          /\ Len(last.resp.val) = Len(IndexOf(last.ident).val)
          /\ \A i \in 1..Len(last.resp.val) :
                /\ SingleRegion(last.ident, last.resp.val[i].id).kind = "latex"
                /\ last.resp.val[i].latex
                      = SingleRegion(last.ident, last.resp.val[i].id).val
    /\ (/\ last.op = "get_spoken_math_for_region" /\ OnUploaded
        /\ last.rid \in 0..(Len(IndexOf(last.ident).val) - 1)) =>
          /\ last.resp.kind = "spoken_math"
          /\ last.resp.val.latex = SingleRegion(last.ident, last.rid).val

\* ------------------------------------------------- claims on validation
\* The handler of the step is the single-region call, it got the index of
\* the document, and its region id is outside of the index.
OutOfRangeCall ==
    /\ HandlerStep
    /\ last'.op = "get_latex_for_region"
    /\ HasEvent(last'.ev, "index")
    /\ (last'.rid < 0 \/ last'.rid >= Len(FirstEvent(last'.ev, "index").a))

\* C24: a single-region call with a region id outside of the index is
\* answered with the invalid-id error without a call of get_cached_page, a
\* rasterization for it or a run of the recognition model; the caches of
\* get_cached_page and of get_pdf_latex are what they were.
C24_ValidationPrecedesWork ==
    [][OutOfRangeCall =>
        /\ last'.resp.kind = "error"
        /\ last'.resp.val = "ValueError: Invalid region ID"
        /\ ~HasEvent(last'.ev, "page_image")
        /\ ~HasEvent(last'.ev, "page")
        /\ \A i \in EventsOf(last'.ev, "raster") : last'.ev[i].a # "cached_page"
        /\ ~HasEvent(last'.ev, "recognize")
        /\ pg' = pg
        /\ lx' = lx
        /\ ~CacheHas(lx', LatexKey(last'))]_tick

\* Region id 3 on u1, whose index has 3 regions, while get_cached_page holds
\* a page of u1: the call is refused and the page is still held.
C24_Witness ==
    /\ last.op = "get_latex_for_region"
    /\ last.ident = <<"http", "u1">> /\ last.rid = 3
    /\ HasEvent(last.ev, "index")
    /\ Len(FirstEvent(last.ev, "index").a) = 3
    /\ last.resp.val = "ValueError: Invalid region ID"
    /\ CacheHas(pg, <<<<"http", "u1">>, 1>>)
    /\ ~CacheHas(lx, <<<<"http", "u1">>, 3>>)

\* ---------------------------------------------------------------------
\* Expiry specification: the upload directory with modification times.
\* ---------------------------------------------------------------------

\* cleanup_old_files(UPLOAD_DIR, max_age_seconds=3600) in upload_pdf.
max_age_seconds == 3600

\* The readings of the clock at which something happens: either side of
\* one maximal age after 0 and after 1, and two maximal ages later.
Instants == {0, 1, 3600, 3601, 3602, 7202}

\* folder.glob("*.pdf").
IsPdf(name) == name[2] = "pdf"

\* A cleanup that also deletes a file of exactly the maximal age.
cleanup_old_files_inclusive(folder, current_time, max_age) ==
    [n \in DOMAIN folder |->
        IF IsPdf(n) /\ folder[n] >= 0 /\ current_time - folder[n] >= max_age
        THEN Gone ELSE folder[n]]

\* cleanup_old_files over modification times: every *.pdf of the folder
\* with current_time - st_mtime > max_age_seconds is unlinked.
cleanup_old_files_by_mtime(folder, current_time, max_age) ==
    [n \in DOMAIN folder |->
        IF IsPdf(n) /\ folder[n] >= 0 /\ current_time - folder[n] > max_age
        THEN Gone ELSE folder[n]]

\* What os.path.exists and open see of a name with this entry.
StatusOf(m) == IF m = Never THEN "none" ELSE IF m = Gone THEN "deleted" ELSE "fresh"

\* upload_pdf at the time now: the cleanup first, then the file under a
\* new uuid4, written now.
UploadPdfAt ==
    /\ loop = 0
    /\ \E pdf_id \in UploadIds :
        /\ mtime[<<pdf_id, "pdf">>] = Never
        /\ mtime' = [cleanup_old_files_by_mtime(mtime, now, max_age_seconds)
                        EXCEPT ![<<pdf_id, "pdf">>] = now]
    /\ files' = [l \in DOMAIN files |-> StatusOf(mtime'[<<l, "pdf">>])]
    /\ UNCHANGED <<server, dl, pg, rg, lx, ix, rastered, last, reqs, loop, conc, call, tick,
                   now>>

\* Time passes.
Elapse ==
    /\ \E t \in Instants :
        /\ t > now
        /\ now' = t
    /\ UNCHANGED <<files, server, dl, pg, rg, lx, ix, rastered, last, reqs, loop, conc, call,
                   tick, mtime>>

NextExpiry == GetPdf \/ UploadPdfAt \/ Elapse

SpecExpiry == Init /\ [][NextExpiry]_vars

\* C25: the cleanup run by upload_pdf deletes only .pdf files whose
\* modification age is greater than 3600 s, never a younger file and never
\* the file the same upload creates, which exists after the upload with
\* the time of the upload; no other step changes the directory; and while
\* the file of a handle is in the directory, get_pdf on the handle answers
\* with the uploaded bytes.
C25_UploadStoreExpiry ==
    /\ [][\A n \in DirNames :
            /\ (mtime[n] >= 0 /\ mtime'[n] # mtime[n])
                  => (mtime'[n] = Gone /\ n[2] = "pdf" /\ now - mtime[n] > 3600)
            /\ (mtime[n] = Never /\ mtime'[n] # Never) => mtime'[n] = now
            /\ mtime[n] = Gone => mtime'[n] = Gone]_mtime
    /\ [](\A l \in DOMAIN files : files[l] = StatusOf(mtime[<<l, "pdf">>]))
    /\ [][(HandlerStep /\ last'.op = "get_pdf" /\ last'.ident \in Handles
                /\ files[last'.ident[2]] = "fresh")
            => /\ last'.resp.kind = "pdf"
               /\ last'.resp.val = [doc |-> last'.ident[2], ver |-> 1]]_tick

\* C25 witness: the upload at 3601 s deleted the upload of 0 s, which
\* get_pdf had served, and left the file that is no pdf.
C25_Witness ==
    /\ mtime[<<"l1", "pdf">>] = Gone
    /\ mtime[<<"l2", "pdf">>] = 3601
    /\ mtime[<<"notes", "txt">>] = 0
    /\ last.op = "get_pdf" /\ last.ident = <<"local", "l1">>
    /\ last.resp.kind = "pdf"

\* ---------------------------------------------------------------------
\* Resolver specification: get_pdf on every kind of string a client can
\* put in the path of the request.
\* ---------------------------------------------------------------------

\* Strings without a scheme: the path of a file of the host and a path
\* that names nothing.
RawPaths == {<<"path", p>> : p \in HostPaths \cup {"/nowhere"}}
\* Strings that start with local:// and go on with a relative path.
Traversals == {<<"local", s>> : s \in HostPdfs}
ClientIdents == Idents \cup RawPaths \cup Traversals

RanResolver(op, ident, h) ==
    /\ Commit(h)
    /\ last' = [op |-> op, ident |-> ident, rid |-> 0, resp |-> h.resp, ev |-> h.s.ev,
                before |-> <<>>, twice |-> {}]
    /\ tick' = 1 - tick
    /\ UNCHANGED <<files, server, ix, rastered, reqs, loop, conc, call, now, mtime>>

GetPdfOf ==
    \E ident \in ClientIdents, fault \in {"none"} \cup NetFaults :
        RanResolver("get_pdf", ident, get_pdf(Pipeline, Env(fault, {}, 0), ident))

NextResolver == GetPdfOf \/ UploadPdf

SpecResolver == Init /\ [][NextResolver]_vars

\* The path names a file of the upload directory.
InUploadDir(path) == path[1] = "file" /\ path[2] \in LocalIds

\* C26: a handler reads a file from the local filesystem only if the file
\* lies inside the upload directory and the identifier of the request is a
\* local:// handle; the bytes kept for any other key were fetched from its
\* URL.
C26_LocalReadsConfined ==
    /\ \A i \in EventsOf(last.ev, "read") :
          InUploadDir(last.ev[i].k) /\ last.ident[1] = "local"
    /\ \A k \in CacheKeys(dl) : is_url(k) \/ InUploadDir(k)
    /\ (last.op = "get_pdf" /\ last.ident[1] # "local" /\ ~is_url(last.ident))
          => last.resp.kind = "error"
====
